---- MODULE Spec2Model ----
(***************************************************************************)
(* Model of src/function_registry.ts: the registration container, name     *)
(* validation, the registration API (http, cloudEvent, typed), lookup      *)
(* (getRegisteredFunction), the default JsonFormat and the async adapter    *)
(* that typed() stores.                                                    *)
(*                                                                         *)
(* JavaScript values are named by strings; a function name is a tuple of   *)
(* one-character strings.  An invocation of the adapter is a process whose *)
(* position (pc) is the await it is suspended at.                          *)
(***************************************************************************)
EXTENDS Integers, Sequences, FiniteSets, TLC

\* ------------------------------------------------------------------ bounds

\* Number of adapter invocations a behaviour may start, one after the other.
MaxStarted == 1

\* The invocations in flight at one time.
InvIds == {1}

\* ----------------------------------------------------------- JS values

Undefined == "undefined"

\* Request bodies the HTTP layer can hand over: primitives, null, an absent
\* body, an object and an array.
Bodies == {"'text'", "42", "true", "null", Undefined, "{x:1}", "[1]"}

\* typeof v, for the values of the model.
TypeOf(v) ==
  CASE v = "'text'" -> "string"
    [] v = "42" -> "number"
    [] v = "true" -> "boolean"
    [] v = Undefined -> "undefined"
    [] OTHER -> "object"

\* Values a custom format's decode can produce.
CustomDecoded == {"typedIn"}

\* Values a user handler can produce: a plain object, nothing, and an object
\* that refers to itself.
Results == {"{y:2}", Undefined, "circular"}

\* JSON.stringify(value): the text, undefined for undefined, a TypeError for
\* a circular structure.
JSONstringify(value) ==
  CASE value = "circular" ->
         [threw |-> TRUE, value |-> "TypeError: circular structure"]
    [] value = Undefined -> [threw |-> FALSE, value |-> Undefined]
    [] value = "{y:2}" -> [threw |-> FALSE, value |-> "{\"y\":2}"]
    [] value = "{x:1}" -> [threw |-> FALSE, value |-> "{\"x\":1}"]
    [] value = "[1]" -> [threw |-> FALSE, value |-> "[1]"]
    [] value = "'text'" -> [threw |-> FALSE, value |-> "\"text\""]
    [] OTHER -> [threw |-> FALSE, value |-> value]

\* ------------------------------------------------------- function names

Letters == {"a", "b", "Z"}
Digits == {"7"}

\* Longest run the regex allows between the first and the last character.
MaxInterior == 61

IsAlnum(c) == c \in Letters \cup Digits
IsInterior(c) == c \in Letters \cup Digits \cup {"-", "_"}

\* A validation whose regex is /^[A-Za-z][-_A-Za-z0-9]{0,62}$/: the last
\* character may be a dash or an underscore.
isValidFunctionNameAnyEnd(functionName) ==
  /\ Len(functionName) >= 1
  /\ functionName[1] \in Letters
  /\ Len(functionName) - 1 <= MaxInterior + 1
  /\ \A k \in 2..Len(functionName) : IsInterior(functionName[k])

\* /^[A-Za-z](?:[-_A-Za-z0-9]{0,61}[A-Za-z0-9])?$/.test(functionName)
isValidFunctionName(functionName) ==
  /\ Len(functionName) >= 1
  /\ functionName[1] \in Letters
  /\ \/ Len(functionName) = 1
     \/ /\ Len(functionName) - 2 <= MaxInterior
        /\ IsAlnum(functionName[Len(functionName)])
        /\ \A k \in 2..(Len(functionName) - 1) : IsInterior(functionName[k])

\* Names the registration API and lookup are called with: two valid ones,
\* the empty name and one ending with a dash.
Names == {<<"a">>, <<"b", "7">>, <<>>, <<"a", "-">>}

InvalidNameError(functionName) ==
  [kind |-> "Error", message |-> <<"Invalid function name: ", functionName>>]

\* ------------------------------------------------ handlers and formats

\* User functions.
Handlers == {"h1", "h2"}

\* The default format (an instance of JsonFormat) and a user-supplied one.
JsonFormat == "JsonFormat"
CustomFormats == {"fmt1"}

\* Option bags user code holds, and the literal {handler: optOrHandler} that
\* typed() builds around a bare handler.
OptionBags == {"o1", "o2"}
Literal(handler) == IF handler = "h1" THEN "{handler:h1}" ELSE "{handler:h2}"
ObjRefs == OptionBags \cup {Literal(h) : h \in Handlers}

\* What user code passes to typed(): a bare handler or an option bag.
TypedArgs == {"h1"} \cup OptionBags

NoRef == "none"

\* A user function stored as is (http, cloudEvent).
UserFunction(handler) ==
  [kind |-> "user", handler |-> handler, opt |-> NoRef, format |-> NoRef]

\* The async (req, res) closure typed() stores: it captures opt and format.
Adapter(opt, format) ==
  [kind |-> "adapter", handler |-> NoRef, opt |-> opt, format |-> format]

NoFunction == [kind |-> "none", handler |-> NoRef, opt |-> NoRef, format |-> NoRef]

\* interface RegisteredFunction
RegisteredFunction(signatureType, userFunction) ==
  [signatureType |-> signatureType, userFunction |-> userFunction]

NoEntry == RegisteredFunction("none", NoFunction)

\* ------------------------------------------------------------- response

\* res.status(code)
BadRequest == 400

\* An express Response as the adapter sees it: the status codes set, the
\* headers set, the chunks passed to end(), and how often end() was called.
FreshResponse == [status |-> <<>>, headers |-> {}, body |-> <<>>, ended |-> 0]

ResStatus(res, code) == [res EXCEPT !.status = Append(@, code)]
ResHeader(res, field, value) == [res EXCEPT !.headers = @ \cup {<<field, value>>}]
ResEnd(res, chunk) ==
  [res EXCEPT !.body = Append(@, chunk), !.ended = @ + 1]

\* ------------------------------------------------------------ the state

VARIABLES
  registrationContainer,  \* the Map: a function whose domain is the keys set
  heap,                   \* the option bags: object -> its handler and format
  ret,                    \* what the last call of the API gave its caller
  inv,                    \* the invocations of adapters: id -> its frame
  started,                \* how many invocations were started so far
  probe                   \* a name isValidFunctionName is called with, and
                          \* what the call returned

vars == <<registrationContainer, heap, ret, inv, started, probe>>

\* A Map whose set keeps the value a key already has.
MapSetKeepsFirst(map, key, value) ==
  [k \in DOMAIN map \cup {key} |-> IF k \in DOMAIN map THEN map[k] ELSE value]

\* A Map whose set drops the other keys.
MapSetAlone(map, key, value) == [k \in {key} |-> value]

\* Map.prototype.set and Map.prototype.get
MapSet(map, key, value) ==
  [k \in DOMAIN map \cup {key} |-> IF k = key THEN value ELSE map[k]]
MapHas(map, key) == key \in DOMAIN map
MapGet(map, key) ==
  IF MapHas(map, key)
  THEN [kind |-> "value", value |-> map[key]]
  ELSE [kind |-> "undefined", value |-> NoEntry]

NoError == [kind |-> "none", message |-> <<>>]

\* The outcome of a call of the API: how it ended ("void", "value",
\* "undefined", "throw"), the value returned and the error thrown.
Outcome(kind, value, error) == [kind |-> kind, value |-> value, error |-> error]

NoCall == Outcome("none", NoEntry, NoError)

\* ---------------------------------------------------------- registration

\* A register that stores the entry before it validates the name.
registerStoresFirst(functionName, signatureType, userFunction) ==
  /\ registrationContainer' =
       MapSet(registrationContainer, functionName,
              RegisteredFunction(signatureType, userFunction))
  /\ ret' = IF ~isValidFunctionName(functionName)
            THEN Outcome("throw", NoEntry, InvalidNameError(functionName))
            ELSE Outcome("void", NoEntry, NoError)

\* register(functionName, signatureType, userFunction)
register(functionName, signatureType, userFunction) ==
  IF ~isValidFunctionName(functionName)
  THEN /\ ret' = Outcome("throw", NoEntry, InvalidNameError(functionName))
       /\ UNCHANGED registrationContainer
  ELSE /\ registrationContainer' =
            MapSet(registrationContainer, functionName,
                   RegisteredFunction(signatureType, userFunction))
       /\ ret' = Outcome("void", NoEntry, NoError)

\* A lookup that stores an empty entry under a name it does not find.
getRegisteredFunctionOrCreate(functionName) ==
  /\ ret' = LET got == MapGet(registrationContainer, functionName)
            IN Outcome(got.kind, got.value, NoError)
  /\ registrationContainer' =
       IF MapHas(registrationContainer, functionName)
       THEN registrationContainer
       ELSE MapSet(registrationContainer, functionName, NoEntry)
  /\ UNCHANGED <<heap, inv, started, probe>>

\* export const getRegisteredFunction
getRegisteredFunction(functionName) ==
  /\ ret' = LET got == MapGet(registrationContainer, functionName)
            IN Outcome(got.kind, got.value, NoError)
  /\ UNCHANGED <<registrationContainer, heap, inv, started, probe>>

\* export const http
http(functionName, handler) ==
  /\ register(functionName, "http", UserFunction(handler))
  /\ UNCHANGED <<heap, inv, started, probe>>

\* A cloudEvent that stores the kind "event".
cloudEventAsEvent(functionName, handler) ==
  /\ register(functionName, "event", UserFunction(handler))
  /\ UNCHANGED <<heap, inv, started, probe>>

\* export const cloudEvent
cloudEvent(functionName, handler) ==
  /\ register(functionName, "cloudevent", UserFunction(handler))
  /\ UNCHANGED <<heap, inv, started, probe>>

\* optOrHandler instanceof Function ? {handler: optOrHandler} : optOrHandler
OptOf(optOrHandler) ==
  IF optOrHandler \in Handlers THEN Literal(optOrHandler) ELSE optOrHandler

\* A typed() that always takes the default format.
FormatOfDefault(bag) == JsonFormat

\* opt.format || new JsonFormat()
FormatOf(bag) == IF bag.format # Undefined THEN bag.format ELSE JsonFormat

\* A typed() whose adapters share one opt and one format: registering
\* again rebinds the invocations in flight.
typedRebinds(functionName, optOrHandler) ==
  /\ LET opt == OptOf(optOrHandler)
         format == FormatOf(heap[opt])
     IN /\ register(functionName, "typed", Adapter(opt, format))
        /\ inv' = [i \in DOMAIN inv |->
                    IF inv[i].pc = "idle" \/ ~isValidFunctionName(functionName)
                    THEN inv[i]
                    ELSE [inv[i] EXCEPT !.fn = Adapter(opt, format)]]
  /\ UNCHANGED <<heap, started, probe>>

\* export const typed
typed(functionName, optOrHandler) ==
  /\ LET opt == OptOf(optOrHandler)
         format == FormatOf(heap[opt])
     IN register(functionName, "typed", Adapter(opt, format))
  /\ UNCHANGED <<heap, inv, started, probe>>

\* ---------------------------------------------------- the typed adapter

\* What a call of user code (a format's method, the user function) gives:
\* how it ended ("return", "throw", "promise") and the value or the error.
Gave(how, value) == [how |-> how, value |-> value]

NoValue == "<none>"

\* JsonFormat.deserializeRequest(request)
JsonDeserializeRequest(body) ==
  IF TypeOf(body) # "object"
  THEN Gave("throw",
            "request is not valid JSON or Content-Type header is set incorrectly")
  ELSE Gave("return", body)

\* What format.deserializeRequest(req) can give: JsonFormat's is decided by
\* the body, a user format's is any of a value, a throw and a Promise.
DeserializeOutcomes(format, body) ==
  IF format = JsonFormat
  THEN {JsonDeserializeRequest(body)}
  ELSE {Gave("return", v) : v \in CustomDecoded}
       \cup {Gave("throw", "decode threw"), Gave("promise", NoValue)}

\* Bodies of the requests an adapter is called with.  What a user format
\* gives is chosen freely whatever the body, so two bodies stand for all.
BodiesFor(format) ==
  IF format = JsonFormat THEN Bodies ELSE {"'text'", "{x:1}"}

\* How the Promise of a user format's deserializeRequest can settle.
DeserializeSettlements ==
  {Gave("resolve", v) : v \in CustomDecoded} \cup {Gave("reject", "decode rejected")}

\* What opt.handler(parsed) can give: a value, a throw or a Promise.
HandlerOutcomes ==
  {Gave("return", v) : v \in Results}
  \cup {Gave("throw", "handler threw"), Gave("promise", NoValue)}

\* How the awaited value of opt.handler(parsed) can settle: a value that is
\* no Promise resolves to itself, a Promise resolves or rejects.
HandlerSettlements(r) ==
  IF r.trace[Len(r.trace)] = <<"handler", "return">>
  THEN {Gave("resolve", r.result)}
  ELSE {Gave("resolve", v) : v \in Results} \cup {Gave("reject", "handler rejected")}

\* A serializeResponse that answers 400 when JSON.stringify throws.
JsonSerializeResponseCatches(res, result) ==
  LET res1 == ResHeader(res, "content-type", "application/json")
      text == JSONstringify(result)
  IN IF text.threw
     THEN [how |-> "return", value |-> NoValue,
           res |-> ResEnd(ResStatus(res1, BadRequest), "400 Bad Request")]
     ELSE [how |-> "return", value |-> NoValue, res |-> ResEnd(res1, text.value)]

\* A serializeResponse that ends the response with the result as it is.
JsonSerializeResponseRaw(res, result) ==
  [how |-> "return", value |-> NoValue,
   res |-> ResEnd(ResHeader(res, "content-type", "application/json"), result)]

\* JsonFormat.serializeResponse(response, result): the header is set before
\* JSON.stringify runs.
JsonSerializeResponse(res, result) ==
  LET res1 == ResHeader(res, "content-type", "application/json")
      text == JSONstringify(result)
  IN IF text.threw
     THEN [how |-> "throw", value |-> text.value, res |-> res1]
     ELSE [how |-> "return", value |-> NoValue, res |-> ResEnd(res1, text.value)]

\* What a user format writes for a result.
CustomEncoded(result) ==
  CASE result = "{y:2}" -> "fmt1<{y:2}>"
    [] result = Undefined -> "fmt1<undefined>"
    [] result = "circular" -> "fmt1<circular>"
    [] OTHER -> "fmt1<?>"

CustomWrite(res, result) ==
  ResEnd(ResHeader(res, "content-type", "application/x-fmt1"), CustomEncoded(result))

\* What format.serializeResponse(res, ret) can give: JsonFormat's is decided
\* by the result; a user format's returns having written the response,
\* throws, or returns a Promise and writes the response when that resolves.
SerializeOutcomes(format, res, result) ==
  IF format = JsonFormat
  THEN {JsonSerializeResponse(res, result)}
  ELSE {[how |-> "return", value |-> NoValue, res |-> CustomWrite(res, result)],
        [how |-> "throw", value |-> "encode threw", res |-> res],
        [how |-> "promise", value |-> NoValue, res |-> res]}

SerializeSettlements(res, result) ==
  {[how |-> "resolve", value |-> NoValue, res |-> CustomWrite(res, result)],
   [how |-> "reject", value |-> "encode rejected", res |-> res]}

\* The frame of one invocation of the adapter.  pc: "idle" (not called),
\* "decode", "handler", "encode" (suspended at that await), "done" (its
\* Promise resolved), "failed" (its Promise rejected with error).  trace
\* lists the calls made and how each ended and settled.
IdleFrame ==
  [pc |-> "idle", fn |-> NoFunction, body |-> NoValue, res |-> FreshResponse,
   parsed |-> NoValue, result |-> NoValue, error |-> NoValue,
   decodeBy |-> NoRef, encodeBy |-> NoRef, handlerCalled |-> NoRef,
   handlerArg |-> NoValue, encodeArg |-> NoValue, trace |-> <<>>]

\* The async function rejects: its Promise carries the error.
Fail(r, error) == [r EXCEPT !.pc = "failed", !.error = error]

\* A catch block that throws the error on.
DecodeFailedRethrows(r) == Fail(r, "decode threw")

\* catch (e) { res.status(400).end("400 Bad Request"); return; }
DecodeFailed(r) ==
  [r EXCEPT !.res = ResEnd(ResStatus(@, BadRequest), "400 Bad Request"),
            !.pc = "done"]

\* let ret = await opt.handler(parsed): the call; the await follows.
CallHandler(r, parsed, handler, gave) ==
  LET r1 == [r EXCEPT !.parsed = parsed, !.handlerCalled = handler,
                      !.handlerArg = parsed,
                      !.trace = Append(@, <<"handler", gave.how>>)]
  IN CASE gave.how = "throw" -> Fail(r1, gave.value)
       [] gave.how = "return" -> [r1 EXCEPT !.pc = "handler", !.result = gave.value]
       [] OTHER -> [r1 EXCEPT !.pc = "handler"]

\* An adapter that hands what deserializeRequest returned to the handler
\* without awaiting a Promise.
CallDecodeNoAwait(r, bags, gave, hgave) ==
  LET r1 == [r EXCEPT !.decodeBy = r.fn.format,
                      !.trace = Append(@, <<"decode", gave.how>>)]
  IN IF gave.how = "throw"
     THEN DecodeFailed(r1)
     ELSE CallHandler(r1, gave.value, bags[r.fn.opt].handler, hgave)

\* format.deserializeRequest(req) and the lines up to the next await.
CallDecode(r, bags, gave, hgave) ==
  LET r1 == [r EXCEPT !.decodeBy = r.fn.format,
                      !.trace = Append(@, <<"decode", gave.how>>)]
  IN CASE gave.how = "promise" -> [r1 EXCEPT !.pc = "decode"]
       [] gave.how = "throw" -> DecodeFailed(r1)
       [] OTHER -> CallHandler(r1, gave.value, bags[r.fn.opt].handler, hgave)

\* An adapter that awaits the Promise and then hands the Promise, not what it
\* resolved to, to the handler.
ResumeDecodePassesPromise(r, bags, settled, hgave) ==
  LET r1 == [r EXCEPT !.trace = Append(@, <<"decode", settled.how>>)]
  IN IF settled.how = "reject"
     THEN DecodeFailed(r1)
     ELSE CallHandler(r1, NoValue, bags[r.fn.opt].handler, hgave)

\* parsed = await ret: the Promise of deserializeRequest settles.
ResumeDecode(r, bags, settled, hgave) ==
  LET r1 == [r EXCEPT !.trace = Append(@, <<"decode", settled.how>>)]
  IN IF settled.how = "reject"
     THEN DecodeFailed(r1)
     ELSE CallHandler(r1, settled.value, bags[r.fn.opt].handler, hgave)

\* An adapter that does not await the Promise serializeResponse returned.
CallEncodeNoAwait(r, result, gave) ==
  LET r1 == [r EXCEPT !.result = result, !.encodeBy = r.fn.format,
                      !.encodeArg = result, !.res = gave.res,
                      !.trace = Append(@, <<"encode", gave.how>>)]
  IN IF gave.how = "throw" THEN Fail(r1, gave.value)
     ELSE [r1 EXCEPT !.pc = "done"]

\* An adapter that catches what serializeResponse throws.
CallEncodeCatches(r, result, gave) ==
  LET r1 == [r EXCEPT !.result = result, !.encodeBy = r.fn.format,
                      !.encodeArg = result, !.res = gave.res,
                      !.trace = Append(@, <<"encode", gave.how>>)]
  IN IF gave.how = "promise" THEN [r1 EXCEPT !.pc = "encode"]
     ELSE [r1 EXCEPT !.pc = "done"]

\* format.serializeResponse(res, ret) and the lines after it.
CallEncode(r, result, gave) ==
  LET r1 == [r EXCEPT !.result = result, !.encodeBy = r.fn.format,
                      !.encodeArg = result, !.res = gave.res,
                      !.trace = Append(@, <<"encode", gave.how>>)]
  IN CASE gave.how = "throw" -> Fail(r1, gave.value)
       [] gave.how = "promise" -> [r1 EXCEPT !.pc = "encode"]
       [] OTHER -> [r1 EXCEPT !.pc = "done"]

\* An adapter that answers a rejected handler like a failed decode.
ResumeHandlerCatches(r, settled, egave) ==
  LET r1 == [r EXCEPT !.trace = Append(@, <<"handler", settled.how>>)]
  IN IF settled.how = "reject"
     THEN DecodeFailed(r1)
     ELSE CallEncode(r1, settled.value, egave)

\* The awaited opt.handler(parsed) settles.
ResumeHandler(r, settled, egave) ==
  LET r1 == [r EXCEPT !.trace = Append(@, <<"handler", settled.how>>)]
  IN IF settled.how = "reject"
     THEN Fail(r1, settled.value)
     ELSE CallEncode(r1, settled.value, egave)

\* await promiseOrVoid: the Promise of serializeResponse settles.
ResumeEncode(r, settled) ==
  LET r1 == [r EXCEPT !.res = settled.res,
                      !.trace = Append(@, <<"encode", settled.how>>)]
  IN IF settled.how = "reject"
     THEN Fail(r1, settled.value)
     ELSE [r1 EXCEPT !.pc = "done"]

\* An adapter whose request is shared by the invocations in flight: it may
\* decode the request of another invocation.
CallSharedRequest(i, functionName, body) ==
  /\ inv[i].pc = "idle"
  /\ MapHas(registrationContainer, functionName)
  /\ registrationContainer[functionName].signatureType = "typed"
  /\ body \in BodiesFor(registrationContainer[functionName].userFunction.format)
  /\ LET fn == registrationContainer[functionName].userFunction
         r == [IdleFrame EXCEPT !.fn = fn, !.body = body]
         seen == {body} \cup {inv[j].body : j \in {k \in DOMAIN inv : inv[k].pc # "idle"}}
     IN \E b \in seen, hgave \in HandlerOutcomes :
          \E gave \in DeserializeOutcomes(fn.format, b) :
            inv' = [inv EXCEPT ![i] = CallDecode(r, heap, gave, hgave)]
  /\ started' = started + 1
  /\ UNCHANGED <<registrationContainer, heap, ret, probe>>

\* The runtime looks functionName up and calls the adapter it finds with a
\* request carrying body and a fresh response.
Call(i, functionName, body) ==
  /\ inv[i].pc = "idle"
  /\ MapHas(registrationContainer, functionName)
  /\ registrationContainer[functionName].signatureType = "typed"
  /\ body \in BodiesFor(registrationContainer[functionName].userFunction.format)
  /\ LET fn == registrationContainer[functionName].userFunction
         r == [IdleFrame EXCEPT !.fn = fn, !.body = body]
     IN \E gave \in DeserializeOutcomes(fn.format, body), hgave \in HandlerOutcomes :
          inv' = [inv EXCEPT ![i] = CallDecode(r, heap, gave, hgave)]
  /\ started' = started + 1
  /\ UNCHANGED <<registrationContainer, heap, ret, probe>>

\* One invocation after the other, MaxStarted in all.
Invoke(i, functionName, body) ==
  /\ started < MaxStarted
  /\ Call(i, functionName, body)

DecodeSettles(i) ==
  /\ inv[i].pc = "decode"
  /\ \E settled \in DeserializeSettlements, hgave \in HandlerOutcomes :
       inv' = [inv EXCEPT ![i] = ResumeDecode(inv[i], heap, settled, hgave)]
  /\ UNCHANGED <<registrationContainer, heap, ret, started, probe>>

HandlerSettles(i) ==
  /\ inv[i].pc = "handler"
  /\ \E settled \in HandlerSettlements(inv[i]) :
       \/ /\ settled.how = "reject"
          /\ inv' = [inv EXCEPT ![i] = ResumeHandler(inv[i], settled, settled)]
       \/ /\ settled.how = "resolve"
          /\ \E egave \in SerializeOutcomes(inv[i].fn.format, inv[i].res, settled.value) :
               inv' = [inv EXCEPT ![i] = ResumeHandler(inv[i], settled, egave)]
  /\ UNCHANGED <<registrationContainer, heap, ret, started, probe>>

EncodeSettles(i) ==
  /\ inv[i].pc = "encode"
  /\ \E settled \in SerializeSettlements(inv[i].res, inv[i].result) :
       inv' = [inv EXCEPT ![i] = ResumeEncode(inv[i], settled)]
  /\ UNCHANGED <<registrationContainer, heap, ret, started, probe>>

\* The runtime is done with a settled invocation and drops its frame.
Release(i) ==
  /\ inv[i].pc \in {"done", "failed"}
  /\ inv' = [inv EXCEPT ![i] = IdleFrame]
  /\ UNCHANGED <<registrationContainer, heap, ret, started, probe>>

\* ------------------------------------------------------ the specification

\* No call of isValidFunctionName from outside the module was made.
NoProbe == [name |-> <<>>, tested |-> FALSE, valid |-> FALSE]

\* The option bags user code holds: o1 names a format of its own, o2 names
\* none.
InitialHeap ==
         [o \in ObjRefs |->
              CASE o = "o1" -> [handler |-> "h2", format |-> "fmt1"]
                [] o = "o2" -> [handler |-> "h2", format |-> Undefined]
                [] o = Literal("h1") -> [handler |-> "h1", format |-> Undefined]
                [] OTHER -> [handler |-> "h2", format |-> Undefined]]

\* The module is loaded: the Map is empty.
Init ==
  /\ registrationContainer = <<>>
  /\ heap = InitialHeap
  /\ ret = NoCall
  /\ inv = [i \in InvIds |-> IdleFrame]
  /\ started = 0
  /\ probe = NoProbe

Next ==
  \/ \E n \in Names, h \in Handlers : http(n, h)
  \/ \E n \in Names, h \in Handlers : cloudEvent(n, h)
  \/ \E n \in Names, x \in TypedArgs : typed(n, x)
  \/ \E n \in Names : getRegisteredFunction(n)
  \/ \E i \in InvIds, n \in Names, b \in Bodies : Invoke(i, n, b)
  \/ \E i \in InvIds : DecodeSettles(i)
  \/ \E i \in InvIds : HandlerSettles(i)
  \/ \E i \in InvIds : EncodeSettles(i)
  \/ \E i \in InvIds : Release(i)

Spec == Init /\ [][Next]_vars

\* ------------------------------------------- isValidFunctionName alone

\* The longest name isValidFunctionName is called with.
MaxNameLen == 65

\* The characters of those names: letters, a digit, dash, underscore, space.
Chars == {"a", "Z", "7", "-", "_", " "}

\* The names of up to three characters.
ShortNames ==
  {<<>>} \cup {<<c>> : c \in Chars}
  \cup {<<c, d>> : c \in Chars, d \in Chars}
  \cup {<<c, d, e>> : c \in Chars, d \in Chars, e \in Chars}

\* User code picks a longer name: one more c between the first and the last
\* character of a name whose inner characters are all c.
Pad(c) ==
  /\ Len(probe.name) >= 2
  /\ Len(probe.name) < MaxNameLen
  /\ \A k \in 2..(Len(probe.name) - 1) : probe.name[k] = c
  /\ probe' = [name |-> <<Head(probe.name), c>> \o Tail(probe.name),
               tested |-> FALSE, valid |-> FALSE]
  /\ UNCHANGED <<registrationContainer, heap, ret, inv, started>>

\* User code calls isValidFunctionName(name).
Test ==
  /\ ~probe.tested
  /\ probe' = [probe EXCEPT !.tested = TRUE,
                            !.valid = isValidFunctionName(probe.name)]
  /\ UNCHANGED <<registrationContainer, heap, ret, inv, started>>

InitName ==
  /\ registrationContainer = <<>>
  /\ heap = InitialHeap
  /\ ret = NoCall
  /\ inv = [i \in InvIds |-> IdleFrame]
  /\ started = 0
  /\ probe \in {[name |-> n, tested |-> FALSE, valid |-> FALSE] : n \in ShortNames}

NextName ==
  \/ \E c \in {"a", "-", " "} : Pad(c)
  \/ Test

SpecName == InitName /\ [][NextName]_vars

\* ---------------------------------------- invocations in flight together

\* Number of adapter invocations a behaviour of SpecPair may start.
MaxPairStarted == 2

\* The invocations in flight at one time in SpecPair.
PairIds == {1, 2}

\* The container after typed(<<"a">>, h1) and typed(<<"b", "7">>, o1).
LoadedContainer ==
  MapSet(MapSet(<<>>, <<"a">>,
                RegisteredFunction("typed", Adapter(Literal("h1"), JsonFormat))),
         <<"b", "7">>, RegisteredFunction("typed", Adapter("o1", "fmt1")))

\* The runtime starts an invocation while others may be in flight.
InvokePair(i, functionName, body) ==
  /\ started < MaxPairStarted
  /\ Call(i, functionName, body)

\* Both typed entries are registered; no invocation has started.
InitPair ==
  /\ registrationContainer = LoadedContainer
  /\ heap = InitialHeap
  /\ ret = Outcome("void", NoEntry, NoError)
  /\ inv = [i \in PairIds |-> IdleFrame]
  /\ started = 0
  /\ probe = NoProbe

NextPair ==
  \/ \E i \in PairIds, n \in Names, b \in Bodies : InvokePair(i, n, b)
  \/ \E i \in PairIds : DecodeSettles(i)
  \/ \E i \in PairIds : HandlerSettles(i)
  \/ \E i \in PairIds : EncodeSettles(i)
  \/ \E i \in PairIds : Release(i)

SpecPair == InitPair /\ [][NextPair]_vars

\* Every Promise an invocation awaits settles in the end.
SpecPairFair ==
  /\ SpecPair
  /\ \A i \in PairIds :
       /\ WF_vars(DecodeSettles(i))
       /\ WF_vars(HandlerSettles(i))
       /\ WF_vars(EncodeSettles(i))

\* ------------------------------------- option bags changed by user code

\* User code assigns the handler field of an option bag it holds.
SetHandler(o, h) ==
  /\ heap[o].handler # h
  /\ heap' = [heap EXCEPT ![o].handler = h]
  /\ UNCHANGED <<registrationContainer, ret, inv, started, probe>>

\* User code assigns the format field of an option bag it holds.
SetFormat(o, f) ==
  /\ heap[o].format # f
  /\ heap' = [heap EXCEPT ![o].format = f]
  /\ UNCHANGED <<registrationContainer, ret, inv, started, probe>>

\* The container after typed(<<"a">>, o2) and typed(<<"b", "7">>, o1), both
\* called with the bags as InitialHeap has them.
BagsContainer ==
  MapSet(MapSet(<<>>, <<"a">>,
                RegisteredFunction("typed",
                                   Adapter("o2", FormatOf(InitialHeap["o2"])))),
         <<"b", "7">>,
         RegisteredFunction("typed", Adapter("o1", FormatOf(InitialHeap["o1"]))))

\* Both bags are registered and unchanged since; no invocation has started.
InitMut ==
  /\ registrationContainer = BagsContainer
  /\ heap = InitialHeap
  /\ ret = Outcome("void", NoEntry, NoError)
  /\ inv = [i \in InvIds |-> IdleFrame]
  /\ started = 0
  /\ probe = NoProbe

NextMut ==
  \/ \E o \in OptionBags, h \in Handlers : SetHandler(o, h)
  \/ \E o \in OptionBags, f \in CustomFormats \cup {Undefined} : SetFormat(o, f)
  \/ \E i \in InvIds, n \in Names, b \in Bodies : Invoke(i, n, b)
  \/ \E i \in InvIds : DecodeSettles(i)
  \/ \E i \in InvIds : HandlerSettles(i)
  \/ \E i \in InvIds : EncodeSettles(i)
  \/ \E i \in InvIds : Release(i)

SpecMut == InitMut /\ [][NextMut]_vars

\* ------------------------------------------------------------ the claims

\* What lookup returns for functionName in the state before and after a step.
Lookup(functionName) == MapGet(registrationContainer, functionName)
LookupAfter(functionName) == MapGet(registrationContainer', functionName)

\* A step that is a call of the registration API under functionName.
RegistersUnder(functionName) ==
  \/ \E h \in Handlers : http(functionName, h)
  \/ \E h \in Handlers : cloudEvent(functionName, h)
  \/ \E x \in TypedArgs : typed(functionName, x)

\* The names of the model that break the naming rules.
InvalidNames == {<<>>, <<"a", "-">>}

\* The user function a typed() argument supplies.
SuppliedHandler(x) == IF x \in Handlers THEN x ELSE heap[x].handler

\* C1: after a successful http, cloudEvent or typed call under a name, lookup
\* of that name returns the entry of that call (its kind, its handler),
\* whatever was stored before; the entry a lookup returns for a name changes
\* only in a step that is a successful registration under that name; and a
\* call of getRegisteredFunction returns the entry stored.
C1_LastWriteWins ==
  [][\A n \in Names :
       /\ ret'.kind = "void" =>
            /\ \A h \in Handlers :
                 http(n, h) =>
                   LookupAfter(n) =
                     [kind |-> "value",
                      value |-> RegisteredFunction("http", UserFunction(h))]
            /\ \A h \in Handlers :
                 cloudEvent(n, h) =>
                   LookupAfter(n) =
                     [kind |-> "value",
                      value |-> RegisteredFunction("cloudevent", UserFunction(h))]
            /\ \A x \in TypedArgs :
                 typed(n, x) =>
                   /\ LookupAfter(n).kind = "value"
                   /\ LookupAfter(n).value.signatureType = "typed"
                   /\ LookupAfter(n).value.userFunction.kind = "adapter"
                   /\ heap[LookupAfter(n).value.userFunction.opt].handler =
                        SuppliedHandler(x)
       /\ LookupAfter(n) # Lookup(n) => (ret'.kind = "void" /\ RegistersUnder(n))
       /\ (ret'.kind \in {"value", "undefined"} /\ getRegisteredFunction(n)) =>
            /\ ret'.kind = LookupAfter(n).kind
            /\ ret'.value = LookupAfter(n).value
    ]_vars

\* C1 witness: an invocation started from a typed entry is in flight, the
\* last call was a successful registration, and no name holds a typed entry
\* any more: a name was registered again with another kind, and lookup gives
\* the new entry.
C1_Witness ==
  /\ \E i \in InvIds : inv[i].pc = "handler"
  /\ ret.kind = "void"
  /\ \A n \in DOMAIN registrationContainer :
       registrationContainer[n].signatureType \in {"http", "cloudevent"}

\* C2: a call of http, cloudEvent or typed with a name that breaks the naming
\* rules throws the invalid-name error and leaves every name's lookup as it
\* was.
C2_InvalidNameRejected ==
  [][\A n \in InvalidNames :
       RegistersUnder(n) =>
         /\ ret'.kind = "throw"
         /\ ret'.error = InvalidNameError(n)
         /\ \A m \in Names : LookupAfter(m) = Lookup(m)
    ]_vars

\* C2 witness: a registration threw the invalid-name error while the
\* container held entries.
C2_Witness ==
  /\ ret.kind = "throw"
  /\ \E n \in InvalidNames : ret.error = InvalidNameError(n)
  /\ DOMAIN registrationContainer # {}

\* C10: a call of getRegisteredFunction never throws, returns undefined for a
\* name without an entry (every invalid name is one), and leaves the
\* container as it was.
C10_LookupIsPureRead ==
  [][\A n \in Names :
       getRegisteredFunction(n) =>
         /\ ret'.kind # "throw"
         /\ (~MapHas(registrationContainer, n) \/ n \in InvalidNames) =>
              ret'.kind = "undefined"
         /\ registrationContainer' = registrationContainer
         /\ \A m \in Names : LookupAfter(m) = Lookup(m)
    ]_vars

\* C10 witness: a lookup returned undefined while the container held entries.
C10_Witness ==
  /\ ret.kind = "undefined"
  /\ DOMAIN registrationContainer # {}

\* What the frame r recorded: whether it holds the event <<step, how>>.
Has(r, step, how) == \E k \in 1..Len(r.trace) : r.trace[k] = <<step, how>>

\* The frames of the invocations started and not yet dropped.
Frames == {inv[i] : i \in {j \in DOMAIN inv : inv[j].pc # "idle"}}

\* With "return", "throw" or "promise" an event is a call of a step.
CallHows == {"return", "throw", "promise"}

\* C3: when deserializeRequest throws or its Promise rejects, the invocation
\* is done without an error, the response has status 400, the body
\* "400 Bad Request" and is ended once, and neither the user function nor
\* serializeResponse was called.
C3_DecodeFailureIs400 ==
  \A r \in Frames :
    (Has(r, "decode", "throw") \/ Has(r, "decode", "reject")) =>
      /\ r.pc = "done"
      /\ r.error = NoValue
      /\ r.res = [status |-> <<400>>, headers |-> {},
                  body |-> <<"400 Bad Request">>, ended |-> 1]
      /\ r.handlerCalled = NoRef
      /\ r.encodeBy = NoRef
      /\ \A k \in 1..Len(r.trace) : r.trace[k][1] = "decode"

\* C3 witness: the Promise a user format's deserializeRequest returned was
\* rejected and the invocation is done.
C3_Witness ==
  \E r \in Frames :
    /\ r.trace = <<<<"decode", "promise">>, <<"decode", "reject">>>>
    /\ r.pc = "done"

\* C4: when the user function throws or its Promise rejects, the invocation
\* fails with that error, serializeResponse was not called and the response
\* is as the adapter received it.
C4_HandlerFailurePropagates ==
  \A r \in Frames :
    /\ Has(r, "handler", "throw") =>
         /\ r.pc = "failed" /\ r.error = "handler threw"
         /\ r.encodeBy = NoRef /\ r.res = FreshResponse
         /\ \A k \in 1..Len(r.trace) : r.trace[k][1] # "encode"
    /\ Has(r, "handler", "reject") =>
         /\ r.pc = "failed" /\ r.error = "handler rejected"
         /\ r.encodeBy = NoRef /\ r.res = FreshResponse
         /\ \A k \in 1..Len(r.trace) : r.trace[k][1] # "encode"

\* C4 witness: after a decode that resolved, the Promise of the user function
\* was rejected.
C4_Witness ==
  \E r \in Frames :
    /\ Has(r, "decode", "resolve")
    /\ Has(r, "handler", "reject")
    /\ r.pc = "failed"

\* The steps a frame started, in the order it started them.
StepsStarted(r) ==
  LET calls == SelectSeq(r.trace, LAMBDA e : e[2] \in CallHows)
  IN [k \in 1..Len(calls) |-> calls[k][1]]

IsPrefix(s, t) == Len(s) <= Len(t) /\ \A k \in 1..Len(s) : s[k] = t[k]

\* C5: the steps an invocation started are a prefix of decode, handler,
\* encode; the user function is called only after deserializeRequest returned
\* a value or its Promise resolved, and serializeResponse only after the
\* awaited result of the user function resolved.
C5_StepsInOrder ==
  \A r \in Frames :
    /\ IsPrefix(StepsStarted(r), <<"decode", "handler", "encode">>)
    /\ \A k \in 1..Len(r.trace) :
         /\ (r.trace[k][1] = "handler" /\ r.trace[k][2] \in CallHows) =>
              /\ \E j \in 1..(k - 1) :
                   r.trace[j] \in {<<"decode", "return">>, <<"decode", "resolve">>}
              /\ r.trace[k - 1][2] # "promise"
         /\ (r.trace[k][1] = "encode" /\ r.trace[k][2] \in CallHows) =>
              r.trace[k - 1] = <<"handler", "resolve">>

\* C5 witness: a deferred decode, a user function that returned a value and a
\* deferred encode ran to the end.
C5_Witness ==
  \E r \in Frames :
    /\ r.trace = <<<<"decode", "promise">>, <<"decode", "resolve">>,
                   <<"handler", "return">>, <<"handler", "resolve">>,
                   <<"encode", "promise">>, <<"encode", "resolve">>>>
    /\ r.pc = "done"

\* C6: when serializeResponse throws (JSON.stringify's TypeError with the
\* default format) or its Promise rejects, the invocation fails with that
\* error and no status was set.
C6_EncodeFailurePropagates ==
  \A r \in Frames :
    /\ Has(r, "encode", "throw") =>
         /\ r.pc = "failed"
         /\ r.error = IF r.fn.format = JsonFormat
                      THEN "TypeError: circular structure" ELSE "encode threw"
         /\ r.res.status = <<>>
    /\ Has(r, "encode", "reject") =>
         /\ r.pc = "failed" /\ r.error = "encode rejected"
         /\ r.res.status = <<>>

\* C6 witness: with the default format the user function resolved to a
\* circular structure and the invocation failed.
C6_Witness ==
  \E r \in Frames :
    /\ r.fn.format = JsonFormat
    /\ r.result = "circular"
    /\ Has(r, "encode", "throw")
    /\ r.pc = "failed"

\* The bodies that are no structured value, and those that are.
Unstructured == {"'text'", "42", "true", "null", Undefined}
Structured == {"{x:1}", "[1]"}

\* C7: with the default format a request whose body is a string, a number, a
\* boolean, null or absent is answered 400 "400 Bad Request" without a call
\* of the user function, and a structured body reaches the user function
\* unchanged.
C7_UnstructuredBodyIs400 ==
  \A r \in Frames :
    r.fn.format = JsonFormat =>
      /\ r.body \in Unstructured =>
           /\ r.pc = "done"
           /\ r.res.status = <<BadRequest>> /\ r.res.body = <<"400 Bad Request">>
           /\ r.handlerCalled = NoRef
      /\ r.body \in Structured =>
           (r.handlerCalled # NoRef /\ r.handlerArg = r.body)

\* C8: with the default format, a structured body and a user function that
\* succeeded, the finished invocation left the response with content-type
\* application/json, the JSON text of the result as its whole body, ended
\* once, and no status set; the result {y:2} gives the body {"y":2}.
C8_JsonResponse ==
  \A r \in Frames :
    (r.fn.format = JsonFormat /\ r.body \in Structured /\ r.pc = "done") =>
      /\ r.res = [status |-> <<>>,
                  headers |-> {<<"content-type", "application/json">>},
                  body |-> <<JSONstringify(r.result).value>>, ended |-> 1]
      /\ r.result = "{y:2}" => r.res.body = <<"{\"y\":2}">>

\* C8 witness: the body {x:1} and the deferred result {y:2}.
C8_Witness ==
  \E r \in Frames :
    /\ r.fn.format = JsonFormat /\ r.body = "{x:1}" /\ r.pc = "done"
    /\ Has(r, "handler", "promise") /\ r.result = "{y:2}"

\* C9: an adapter registered with an option bag that names a format calls
\* that format's deserializeRequest and serializeResponse; one registered
\* with a bare handler or with a bag without a format calls JsonFormat's; in
\* each shape the user function called is the one supplied.
C9_BothShapes ==
  \A r \in Frames :
    /\ (r.fn.opt \in OptionBags /\ heap[r.fn.opt].format # Undefined) =>
         /\ r.decodeBy = heap[r.fn.opt].format
         /\ r.encodeBy \in {NoRef, heap[r.fn.opt].format}
    /\ (r.fn.opt \notin OptionBags \/ heap[r.fn.opt].format = Undefined) =>
         /\ r.decodeBy = JsonFormat
         /\ r.encodeBy \in {NoRef, JsonFormat}
    /\ \A x \in TypedArgs :
         r.fn.opt = OptOf(x) => r.handlerCalled \in {NoRef, SuppliedHandler(x)}

\* C9 witness: an adapter registered with the bag o1 ran the format and the
\* user function of o1 to the end.
C9_Witness ==
  \E r \in Frames :
    /\ r.fn.opt = "o1" /\ r.pc = "done"
    /\ r.decodeBy = "fmt1" /\ r.encodeBy = "fmt1" /\ r.handlerCalled = "h2"

\* The naming rules, read off the documentation of isValidFunctionName.
AsciiLetters == {"a", "b", "Z"}
AsciiDigits == {"7"}
FollowsNamingRules(n) ==
  /\ Len(n) \in 1..63
  /\ n[1] \in AsciiLetters
  /\ n[Len(n)] \in AsciiLetters \cup AsciiDigits
  /\ \A k \in 2..(Len(n) - 1) : n[k] \in AsciiLetters \cup AsciiDigits \cup {"-", "_"}

KindsStored ==
  {registrationContainer[n].signatureType : n \in DOMAIN registrationContainer}

\* C12 as stated: every entry has a kind among http, event and typed.
C12_KindsHttpEventTyped == KindsStored \subseteq {"http", "event", "typed"}

\* C12, amended: every entry has a kind among http, cloudevent and typed,
\* and the kind is that of the API which stored it: http stores http,
\* cloudEvent stores cloudevent, typed stores typed.
C12_KindsByApi ==
  [][/\ \A m \in DOMAIN registrationContainer' :
          registrationContainer'[m].signatureType \in {"http", "cloudevent", "typed"}
     /\ \A n \in Names :
          ret'.kind = "void" =>
            /\ \A h \in Handlers :
                 http(n, h) => LookupAfter(n).value.signatureType = "http"
            /\ \A h \in Handlers :
                 cloudEvent(n, h) => LookupAfter(n).value.signatureType = "cloudevent"
            /\ \A x \in TypedArgs :
                 typed(n, x) => LookupAfter(n).value.signatureType = "typed"
    ]_vars

\* C12 witness: the container holds an entry of each kind but one, the last
\* call having stored the one cloudEvent registered.
C12_Witness ==
  /\ KindsStored = {"cloudevent", "typed"}
  /\ ret.kind = "void"

\* C13: the user function is called with the value deserializeRequest
\* returned or its Promise resolved to (with JsonFormat the body), never with
\* the Promise; serializeResponse is called with the response of the
\* invocation and the value the awaited result of the user function resolved
\* to.
C13_ArgumentsPassed ==
  \A r \in Frames :
    /\ r.handlerCalled # NoRef =>
         /\ r.handlerArg = r.parsed
         /\ r.handlerArg \in (IF r.fn.format = JsonFormat THEN {r.body}
                              ELSE CustomDecoded)
         /\ Has(r, "decode", "promise") => Has(r, "decode", "resolve")
    /\ r.encodeBy # NoRef =>
         /\ Has(r, "handler", "resolve")
         /\ r.encodeArg = r.result
         /\ r.encodeArg \in Results
         /\ (r.fn.format = JsonFormat) =>
              r.res.headers = {<<"content-type", "application/json">>}

\* C13 witness: a deferred decode and a deferred user function, both
\* resolved, and their values passed on.
C13_Witness ==
  \E r \in Frames :
    /\ Has(r, "decode", "resolve") /\ r.handlerArg = "typedIn"
    /\ Has(r, "handler", "promise") /\ r.encodeArg = "{y:2}"
    /\ r.pc = "done"

\* C14: every name that has an entry in the container follows the naming
\* rules.
C14_StoredNamesValid ==
  \A n \in DOMAIN registrationContainer :
    n \notin InvalidNames /\ FollowsNamingRules(n)

\* C14 witness: both valid names hold entries and the last call was a
\* registration that threw.
C14_Witness ==
  /\ DOMAIN registrationContainer = {<<"a">>, <<"b", "7">>}
  /\ ret.kind = "throw"

\* C15: the container starts empty; no step removes a name; the container
\* changes only in a successful registration.
C15_NamesNeverShrink ==
  /\ registrationContainer = <<>>
  /\ [][/\ DOMAIN registrationContainer \subseteq DOMAIN registrationContainer'
        /\ \A n \in Names : Lookup(n).kind = "value" => LookupAfter(n).kind = "value"
        /\ registrationContainer' # registrationContainer =>
             (ret'.kind = "void" /\ \E n \in Names : RegistersUnder(n))
       ]_vars

\* C15 witness: with both valid names registered and an invocation settled,
\* a lookup of a name without an entry returned undefined.
C15_Witness ==
  /\ DOMAIN registrationContainer = {<<"a">>, <<"b", "7">>}
  /\ \E r \in Frames : r.pc \in {"done", "failed"}
  /\ ret.kind = "undefined"

\* C17: with the default format the response is ended at most once, and
\* once when the invocation is done; a status is set only where decode
\* failed, never after the user function was called.
C17_EndedOnce ==
  \A r \in Frames :
    r.fn.format = JsonFormat =>
      /\ r.res.ended <= 1
      /\ r.pc = "done" => r.res.ended = 1
      /\ r.res.status # <<>> =>
           /\ r.res.status = <<BadRequest>>
           /\ Has(r, "decode", "throw")
      /\ r.handlerCalled # NoRef => r.res.status = <<>>
      /\ r.pc = "failed" => r.res.ended = 0

\* C17 witness: JSON.stringify threw after the user function had run: the
\* invocation failed, the response is not ended and has no status.
C17_Witness ==
  \E r \in Frames :
    /\ r.fn.format = JsonFormat /\ r.pc = "failed"
    /\ r.handlerCalled # NoRef /\ r.encodeBy = JsonFormat
    /\ r.res.ended = 0 /\ r.res.status = <<>>

\* An invocation suspended at an await.
Suspended(r) == r.pc \in {"decode", "handler", "encode"}

\* An invocation whose Promise has settled.
Settled(r) == r.pc \in {"done", "failed"}

\* C16: where every awaited Promise settles, an invocation in flight ends
\* done or failed, and it is done only after a Promise serializeResponse
\* returned has resolved; a suspended invocation moves only when the Promise
\* it awaits settles: nothing else starts a later step, ends it or answers.
C16_SettlesWithItsSteps ==
  /\ \A i \in PairIds : Suspended(inv[i]) ~> Settled(inv[i])
  /\ [](\A r \in Frames :
          (r.pc = "done" /\ Has(r, "encode", "promise")) => Has(r, "encode", "resolve"))
  /\ [][\A i \in PairIds :
          (Suspended(inv[i]) /\ inv'[i] # inv[i]) =>
            \E how \in {"resolve", "reject"} :
              IsPrefix(Append(inv[i].trace, <<inv[i].pc, how>>), inv'[i].trace)
       ]_vars

\* C16 witness: an invocation is done after the Promise of serializeResponse
\* resolved, while the other is still suspended in its user function.
C16_Witness ==
  /\ inv[1].pc = "done" /\ Has(inv[1], "encode", "resolve")
  /\ inv[2].pc = "handler" /\ inv[2].res = FreshResponse

\* The 400 answer of the adapter.
Answer400 == ResEnd(ResStatus(FreshResponse, BadRequest), "400 Bad Request")

\* The responses an invocation can hold given its own steps and result.
OwnResponses(r) ==
  IF Has(r, "decode", "throw") \/ Has(r, "decode", "reject")
  THEN {Answer400}
  ELSE IF r.encodeBy = NoRef
       THEN {FreshResponse}
       ELSE {o.res : o \in SerializeOutcomes(r.fn.format, FreshResponse, r.result)}
            \cup (IF r.fn.format = JsonFormat THEN {}
                  ELSE {o.res : o \in SerializeSettlements(FreshResponse, r.result)})

\* C18: with two invocations in flight, interleaved in any order, the user
\* function of each is called with the value decoded from its own request,
\* its response holds only the encoding of its own result or its own 400,
\* and a step of one invocation leaves the other as it was.
C18_InvocationsIsolated ==
  /\ [](\A r \in Frames :
          /\ r.handlerCalled # NoRef =>
               r.handlerArg \in (IF r.fn.format = JsonFormat THEN {r.body}
                                 ELSE CustomDecoded)
          /\ r.encodeBy # NoRef => r.encodeArg = r.result
          /\ r.res \in OwnResponses(r))
  /\ [][\A i \in PairIds, j \in PairIds :
          (i # j /\ inv'[i] # inv[i]) => inv'[j] = inv[j]]_vars

\* C18 witness: two invocations of the same entry with different bodies: the
\* first is suspended in its user function, the second, started later, is
\* done with its own result written.
C18_Witness ==
  /\ inv[1].pc = "handler" /\ inv[1].body = "{x:1}" /\ inv[1].handlerArg = "{x:1}"
  /\ inv[2].pc = "done" /\ inv[2].body = "[1]" /\ inv[2].handlerArg = "[1]"
  /\ inv[1].fn = inv[2].fn
  /\ inv[2].res.ended = 1 /\ inv[1].res = FreshResponse

\* C19: a registration made while an invocation is suspended leaves the
\* invocation as it was: it goes on with the adapter it was started on, its
\* format and its user function, while a lookup of the name after that
\* registration returns the new entry.
C19_InFlightKeepsItsEntry ==
  /\ [](\A r \in Frames :
          /\ r.decodeBy = r.fn.format
          /\ r.encodeBy \in {NoRef, r.fn.format}
          /\ r.handlerCalled \in {NoRef, heap[r.fn.opt].handler})
  /\ [][/\ \A i \in InvIds :
             (inv[i].pc # "idle" /\ inv'[i].pc # "idle") => inv'[i].fn = inv[i].fn
        /\ \A n \in Names :
             (ret'.kind = "void" /\ RegistersUnder(n)) =>
               /\ inv' = inv
               /\ LookupAfter(n).kind = "value"
               /\ \A x \in TypedArgs :
                    typed(n, x) =>
                      LookupAfter(n).value =
                        RegisteredFunction("typed",
                          Adapter(OptOf(x), FormatOf(heap[OptOf(x)])))
       ]_vars

\* C19 witness: an invocation started on a typed entry with its own format
\* is suspended in that format's serializeResponse; no name holds its adapter
\* any more, and a lookup has returned an entry of another kind.
C19_Witness ==
  /\ inv[1].pc = "encode" /\ inv[1].encodeBy = "fmt1"
  /\ inv[1].handlerCalled = "h2"
  /\ \A n \in DOMAIN registrationContainer :
       registrationContainer[n].userFunction # inv[1].fn
  /\ ret.kind = "value" /\ ret.value.signatureType = "http"

\* C20: the user function and the format an adapter calls are those the
\* option bag held when typed() was called, whatever user code assigns to
\* the bag's handler and format fields afterwards.
C20_FixedAtRegistration ==
  \A r \in Frames :
    /\ r.decodeBy = FormatOf(InitialHeap[r.fn.opt])
    /\ r.encodeBy \in {NoRef, FormatOf(InitialHeap[r.fn.opt])}
    /\ r.handlerCalled \in {NoRef, InitialHeap[r.fn.opt].handler}

====
